---------------------------- MODULE Spec2Model ----------------------------
(***************************************************************************)
(* A model of VxTarget (firmware_tools/vxhunter_ghidra.py): the symbol     *)
(* table scanner, the endian detector, the symbol table decoder, the       *)
(* string table locator and decoder, and the load address resolver.        *)
(*                                                                         *)
(* A firmware image is a sequence of bytes (0..255).  The code indexes it  *)
(* from 0; the operators At and Slice below take the code's 0-based        *)
(* offsets and have the semantics of Python's indexing and slicing.        *)
(* Python's None is the empty tuple, a value x that may be None is <<x>>.  *)
(***************************************************************************)
EXTENDS Integers, Sequences, FiniteSets, TLC

VARIABLES
    firmware,            \* self._firmware
    vx_version,          \* self._vx_version
    endian,              \* self._endian
    symbol_table_start,  \* self.symbol_table_start
    symbol_table_end,    \* self.symbol_table_end
    string_table,        \* self._string_table
    symbol_table,        \* self._symbol_table
    load_address,        \* self.load_address
    has_symbol,          \* self._has_symbol
    pc,                  \* position of the running call
    op,                  \* the public operation called last
    ret,                 \* what the last completed call returned
    fault,               \* the exception that ended the last call, or "none"
    count,               \* find_string_table_by_key_function_index: count
    start_offset,        \* ... start_offset
    end_offset,          \* ... end_offset
    temp_str_tab_data,   \* ... temp_str_tab_data
    locate,              \* ... its return value, once it returned
    data,                \* the argument of _check_symbol_format_simple
    runs                 \* runs of prepare since the target was made or cleaned up

objVars == <<endian, symbol_table_start, symbol_table_end, string_table,
             symbol_table, load_address, has_symbol>>
locVars == <<count, start_offset, end_offset, temp_str_tab_data, locate>>
vars == <<firmware, vx_version, endian, symbol_table_start, symbol_table_end,
          string_table, symbol_table, load_address, has_symbol, pc, op, ret,
          fault, count, start_offset, end_offset, temp_str_tab_data, locate,
          data, runs>>

---------------------------------------------------------------------------
(* Python values *)

None == <<>>
Some(x) == <<x>>
Val(o) == o[1]

\* Python's truth value of an optional integer: None and 0 are false.
Truthy(o) == o # None /\ Val(o) # 0

Min(a, b) == IF a < b THEN a ELSE b
Max(a, b) == IF a < b THEN b ELSE a

\* the least and the greatest element of a non-empty set of integers
Least(S) == CHOOSE x \in S : \A y \in S : x <= y
Greatest(S) == 0 - Least({0 - x : x \in S})

\* s[o], for an offset 0 <= o < len(s)
At(s, o) == s[o + 1]

\* where a loop that goes up from a to b, or down from b to a, stops: the
\* first offset on its way at which the test p holds, None when it holds
\* at none
FirstUp(a, b, p) ==
    IF \E o \in a..b : p[o]
    THEN Some(CHOOSE o \in a..b : p[o] /\ \A q \in a..(o - 1) : ~p[q])
    ELSE None

FirstDown(a, b, p) ==
    IF \E d \in 0..(b - a) : p[b - d]
    THEN Some(b - (CHOOSE d \in 0..(b - a) : p[b - d] /\ \A e \in 0..(d - 1) : ~p[b - e]))
    ELSE None

\* the value of an optional integer, d for None
OrElse(o, d) == IF o = None THEN d ELSE Val(o)

\* s[a:b], for a, b >= 0: the slice is clipped to the sequence
Slice(s, a, b) == SubSeq(s, Min(a, Len(s)) + 1, Min(b, Len(s)))

\* the function f over 1..n as the sequence of its values
AsSeq(f) == SubSeq(f, 1, Len(f))

\* s[-n:]
LastN(s, n) == SubSeq(s, Max(Len(s) - n, 0) + 1, Len(s))

\* Python's integers are unbounded and the addresses read from an image are
\* up to 2^32 - 1.  Such an integer x is the pair <<x \div 65536, x % 65536>>:
\* the first part any integer, the second in 0..65535.
WInt(x) == <<x \div 65536, x % 65536>>
WSub(a, b) ==
    IF a[2] - b[2] < 0 THEN <<a[1] - b[1] - 1, a[2] - b[2] + 65536>>
    ELSE <<a[1] - b[1], a[2] - b[2]>>
WLeq(a, b) == a[1] < b[1] \/ (a[1] = b[1] /\ a[2] <= b[2])

---------------------------------------------------------------------------
(* Program constants *)

default_check_count == 100

\* 0x80002000, 0x10000, 0x1000, 0xf2003fe4, 0x100000, 0x107fe0
known_address == << <<32768, 8192>>, <<1, 0>>, <<0, 4096>>, <<61952, 16356>>,
                    <<16, 0>>, <<16, 32736>> >>

function_name_key_words == << <<98, 122, 101, 114, 111>>,
                              <<117, 115, 114, 73, 110, 105, 116>>,
                              <<98, 102, 105, 108, 108>> >>

symbol_format_sign_5 == { <<0, 0, 5, 0>>, <<0, 0, 7, 0>>,
                          <<0, 0, 9, 0>>, <<0, 0, 17, 0>> }

symbol_format_sign_6 == { <<0, 0, 0, 0, 0, 0, 3, 0>>, <<0, 0, 0, 0, 0, 0, 5, 0>>,
                          <<0, 0, 0, 0, 0, 0, 7, 0>>, <<0, 0, 0, 0, 0, 0, 9, 0>>,
                          <<0, 0, 0, 0, 0, 0, 17, 0>> }

Zero4 == <<0, 0, 0, 0>>

\* self._symbol_interval
symbol_interval(v) == IF v = 5 THEN 16 ELSE 20

\* the number of records _check_symbol_format looks at
RunLength == 10

---------------------------------------------------------------------------
(* FormatMatcher *)

_check_symbol_format_simple(v, d) ==
    IF v = 5
    THEN /\ Slice(d, 0, 4) = Zero4
         /\ Slice(d, 4, 8) # Zero4
         /\ Slice(d, 8, 12) # Zero4
         /\ LastN(d, 4) \in symbol_format_sign_5
    ELSE IF v = 6
    THEN /\ Slice(d, 0, 4) = Zero4
         /\ Slice(d, 4, 8) # Zero4
         /\ LastN(d, 8) \in symbol_format_sign_6
    ELSE FALSE

_check_symbol_format(fw, v, offset) ==
    LET iv == symbol_interval(v)
        check_data == Slice(fw, offset, offset + iv * RunLength)
        is_big_endian ==
            \A i \in 0..(RunLength - 2) :
                Slice(check_data, 4 + i * iv, 6 + i * iv)
                    = Slice(check_data, 4 + (i + 1) * iv, 6 + (i + 1) * iv)
        is_little_endian ==
            \A i \in 0..(RunLength - 2) :
                Slice(check_data, 6 + i * iv, 8 + i * iv)
                    = Slice(check_data, 6 + (i + 1) * iv, 8 + (i + 1) * iv)
    IN  /\ \A i \in 0..(RunLength - 1) :
              _check_symbol_format_simple(v, Slice(check_data, i * iv, (i + 1) * iv))
        /\ (v = 5 => (is_big_endian # is_little_endian))

---------------------------------------------------------------------------
(* SymbolTableScanner.  An object is the record of the fields that the     *)
(* methods of VxTarget read and write; fault names the exception raised.   *)

Obj == [endian |-> endian, symbol_table_start |-> symbol_table_start,
        symbol_table_end |-> symbol_table_end, string_table |-> string_table,
        symbol_table |-> symbol_table, load_address |-> load_address,
        has_symbol |-> has_symbol, fault |-> "none"]

\* the first loop of find_symbol_table, from `offset` on: the first offset
\* that _check_symbol_format accepts
FindStart(fw, v, offset) ==
    FirstUp(offset, Len(fw) - 1,
            [o \in offset..(Len(fw) - 1) |-> _check_symbol_format(fw, v, o)])

\* the second loop of find_symbol_table over the record offsets i, i + iv,
\* ...: the numbers k of those at which it ends, the offset i + k * iv being
\* at or past the end of the image or failing _check_symbol_format_simple
ScanStops(fw, v, i) ==
    {k \in 0..(Max(Len(fw) - i, 0) \div symbol_interval(v) + 1) :
        \/ i + k * symbol_interval(v) >= Len(fw)
        \/ ~_check_symbol_format_simple(v, Slice(fw, i + k * symbol_interval(v),
                                                 i + (k + 1) * symbol_interval(v)))}

\* ScanEnd with symbol_table_end set to the offset of the last record that
\* passes, not to the offset after it
ScanEndAtLastRecord(fw, v, i, end) ==
    IF Least(ScanStops(fw, v, i)) = 0 THEN end
    ELSE Some(i + (Least(ScanStops(fw, v, i)) - 1) * symbol_interval(v))

\* the second loop of find_symbol_table, from record offset i on:
\* symbol_table_end is set after every record that passes
ScanEnd(fw, v, i, end) ==
    IF Least(ScanStops(fw, v, i)) = 0 THEN end
    ELSE Some(i + Least(ScanStops(fw, v, i)) * symbol_interval(v))

\* FoundSymbolTable without the assignment self._has_symbol = False
FoundSymbolTableKeepsFlag(fw, v, o, found) ==
    IF Truthy(found)
    THEN [o EXCEPT !.symbol_table_start = found,
                   !.has_symbol = Some(TRUE),
                   !.symbol_table_end = ScanEnd(fw, v, Val(found), o.symbol_table_end)]
    ELSE [o EXCEPT !.symbol_table_start = found]

\* find_symbol_table after its first loop, `found` the offset the loop accepted
FoundSymbolTable(fw, v, o, found) ==
    IF Truthy(found)
    THEN [o EXCEPT !.symbol_table_start = found,
                   !.has_symbol = Some(TRUE),
                   !.symbol_table_end = ScanEnd(fw, v, Val(found), o.symbol_table_end)]
    ELSE [o EXCEPT !.symbol_table_start = found,
                   !.has_symbol = Some(FALSE)]

\* a first loop of find_symbol_table that found symbol_table_start set ends
\* at once and leaves _has_symbol as it is
find_symbol_table(fw, v, o) ==
    IF o.symbol_table_start = None
    THEN FoundSymbolTable(fw, v, o, FindStart(fw, v, 0))
    ELSE IF Truthy(o.symbol_table_start)
    THEN [o EXCEPT !.symbol_table_end =
              ScanEnd(fw, v, Val(o.symbol_table_start), o.symbol_table_end)]
    ELSE [o EXCEPT !.has_symbol = Some(FALSE)]

---------------------------------------------------------------------------
(* EndianDetector *)

\* _check_vxworks_endian with Big as the answer when neither field matches
EndianDefaultBig(fw, v, start) ==
    LET iv == symbol_interval(v)
    IN  IF Slice(fw, start + 4, start + 6) = Slice(fw, start + 4 + iv, start + 6 + iv)
        THEN 1
        ELSE IF Slice(fw, start + 6, start + 8) = Slice(fw, start + 6 + iv, start + 8 + iv)
        THEN 2
        ELSE 1

_check_vxworks_endian(fw, v, start) ==
    LET iv == symbol_interval(v)
        data1 == Slice(fw, start + 4, start + 4 + iv)
        data2 == Slice(fw, start + 4 + iv, start + 4 + iv * 2)
    IN  IF Slice(data1, 0, 2) = Slice(data2, 0, 2) THEN 1
        ELSE IF Slice(data1, 2, 4) = Slice(data2, 2, 4) THEN 2
        ELSE 2

---------------------------------------------------------------------------
(* SymbolTableDecoder *)

\* struct.unpack('>I', b)[0] (e = 1) and struct.unpack('<I', b)[0] (e = 2)
\* of a 4-byte string b
Unpack(e, b) ==
    IF e = 1 THEN <<b[1] * 256 + b[2], b[3] * 256 + b[4]>>
    ELSE <<b[4] * 256 + b[3], b[2] * 256 + b[1]>>

\* the record that get_symbol_table appends for the record offset i
Decoded(fw, e, i) ==
    [symbol_name_addr |-> Unpack(e, Slice(fw, i + 4, i + 8)),
     symbol_name_length |-> None,
     symbol_dest_addr |-> Unpack(e, Slice(fw, i + 8, i + 12)),
     offset |-> i]

\* the decoding loop of get_symbol_table over the record offsets start,
\* start + iv, ... below end: struct.unpack raises struct.error at the first
\* whose 4 bytes at +4 or at +8 are cut by the end of the image, that is at
\* the first offset i with i + 12 > len(firmware)
DecodeLoop(fw, e, iv, start, end) ==
    LET n == (end - start + iv - 1) \div iv
        whole == {k \in 0..(n - 1) : start + k * iv + 12 <= Len(fw)}
        m == IF whole = {} THEN 0 ELSE Greatest(whole) + 1
    IN  [table |-> [k \in 1..m |-> Decoded(fw, e, start + (k - 1) * iv)],
         fault |-> IF m < n THEN "struct.error" ELSE "none"]

\* the place of the j-th entry of s after sorted(s, key=symbol_name_addr):
\* Python's sort is stable, entries with equal keys keep their order
RankByNameAddr(s, j) ==
    Cardinality({k \in 1..Len(s) :
        \/ ~WLeq(s[j].symbol_name_addr, s[k].symbol_name_addr)
        \/ (s[k].symbol_name_addr = s[j].symbol_name_addr /\ k <= j)})

\* the list s with its j-th entry moved to the place rank[j]
Permuted(s, rank) == [i \in 1..Len(s) |-> s[CHOOSE j \in 1..Len(s) : rank[j] = i]]

\* sorted(self._symbol_table, key=lambda x: x['symbol_name_addr'])
SortByNameAddr(s) ==
    Permuted(s, AsSeq([j \in 1..Len(s) |-> RankByNameAddr(s, j)]))

\* the loop that fills in symbol_name_length
FillNameLength(t) ==
    [i \in 1..Len(t) |->
        IF i < Len(t)
        THEN [t[i] EXCEPT !.symbol_name_length =
                  Some(WSub(t[i + 1].symbol_name_addr, t[i].symbol_name_addr))]
        ELSE t[i]]

\* get_symbol_table once the endian e is known and the loop has run
DecodedSymbolTable(o, e, dec) ==
    IF dec.fault # "none"
    THEN [o EXCEPT !.endian = Some(e), !.symbol_table = o.symbol_table \o dec.table,
                   !.fault = dec.fault]
    ELSE [o EXCEPT !.endian = Some(e),
                   !.symbol_table = FillNameLength(SortByNameAddr(o.symbol_table \o dec.table))]

DecodeWithEndian(fw, v, o, e) ==
    DecodedSymbolTable(o, e, DecodeLoop(fw, e, symbol_interval(v),
                                        Val(o.symbol_table_start), Val(o.symbol_table_end)))

get_symbol_table(fw, v, o) ==
    IF ~(Truthy(o.symbol_table_start) /\ Truthy(o.symbol_table_end)) THEN o
    ELSE DecodeWithEndian(fw, v, o, _check_vxworks_endian(fw, v, Val(o.symbol_table_start)))

\* prepare after find_symbol_table
PrepareFound(fw, v, o1) ==
    IF o1.has_symbol = Some(FALSE) THEN o1 ELSE get_symbol_table(fw, v, o1)

prepare(fw, v, o) == PrepareFound(fw, v, find_symbol_table(fw, v, o))

---------------------------------------------------------------------------
(* Strings of the image *)

_is_printable(c) == 32 <= c /\ c <= 126

\* '\\', '%', '+', ',', '&', '/'
bad_str == {92, 37, 43, 44, 38, 47}

_check_is_func_name(string) ==
    /\ Len(string) <= 255
    /\ \A i \in 1..Len(string) : string[i] \notin bad_str
    /\ \A i \in 1..Len(string) : _is_printable(string[i])

\* _get_prev_string_data, outer loop: the greatest offset o <= offset, o > 0,
\* of a byte that is not null; None when there is none
PrevNonNull(fw, offset) == FirstDown(1, offset, [o \in 1..offset |-> At(fw, o) # 0])

\* _get_prev_string_data, inner loop: start_address is set at the first
\* offset, going down from `offset`, whose byte before is null, and keeps
\* its first value when offset 0 is reached
PrevStart(fw, offset, start_address) ==
    OrElse(FirstDown(1, offset, [o \in 1..offset |-> At(fw, o - 1) = 0]), start_address)

\* _get_prev_string_data once the outer loop stopped at o
PrevStringAt(fw, o) ==
    IF o = None THEN [kind |-> "none"]
    ELSE [kind |-> "ok",
          string |-> Slice(fw, PrevStart(fw, Val(o), Val(o)), Val(o) + 1),
          start_address |-> PrevStart(fw, Val(o), Val(o)),
          end_address |-> Val(o) + 1]

_get_prev_string_data(fw, offset) == PrevStringAt(fw, PrevNonNull(fw, offset))

\* _get_next_string_data, outer loop: the least offset o >= offset, o < len,
\* of a byte that is not null
NextNonNull(fw, offset) ==
    FirstUp(offset, Len(fw) - 1, [o \in offset..(Len(fw) - 1) |-> At(fw, o) # 0])

\* _get_next_string_data, inner loop: offset is incremented, then read, up
\* to the first null byte; with none, the read at len(firmware) raises
\* IndexError (None here)
NextNull(fw, offset) ==
    FirstUp(offset + 1, Len(fw) - 1, [o \in (offset + 1)..(Len(fw) - 1) |-> At(fw, o) = 0])

\* _get_next_string_data once the outer loop stopped at o and the inner at e
NextStringAt(fw, o, e) ==
    IF e = None THEN [kind |-> "IndexError"]
    ELSE [kind |-> "ok", string |-> Slice(fw, Val(o), Val(e)),
          start_address |-> Val(o), end_address |-> Val(e)]

NextStringFrom(fw, o) ==
    IF o = None THEN [kind |-> "none"] ELSE NextStringAt(fw, o, NextNull(fw, Val(o)))

_get_next_string_data(fw, offset) == NextStringFrom(fw, NextNonNull(fw, offset))

---------------------------------------------------------------------------
(* StringTableLocator: find_string_table_by_key_function_index, one        *)
(* iteration of each of its two loops.  An iteration's outcome is what the *)
(* loop does next: "continue", "break", "return_none" (return None, None)  *)
(* or the exception it raises.                                             *)

\* count: min(len(self._symbol_table), default_check_count)
CheckCount(sym) ==
    IF Len(sym) > default_check_count THEN default_check_count ELSE Len(sym)

StrEntry(r) == [string |-> r.string, start_address |-> r.start_address,
                end_address |-> r.end_address]

\* the iterations of the backward loop that only decrement start_offset:
\* down to a printable byte, or to 0
SkipBack(fw, so) ==
    OrElse(FirstDown(1, so, [o \in 1..so |-> _is_printable(At(fw, o))]), Min(so, 0))

\* the iterations of the forward loop that only increment end_offset: up to
\* a printable byte, or to len(firmware)
SkipFwd(fw, eo) ==
    OrElse(FirstUp(eo, Len(fw) - 1, [o \in eo..(Len(fw) - 1) |-> _is_printable(At(fw, o))]),
           Max(eo, Len(fw)))

\* the backward iteration after a function name r was appended: prev is the
\* string before it; hex(None) in the argument of logger.debug raises
\* TypeError when there is none
BackwardGap(cnt, so, temp1, r, prev) ==
    IF prev.kind = "none"
    THEN [next |-> "TypeError", start_offset |-> so, temp |-> temp1]
    ELSE IF 4 < r.start_address - prev.end_address
    THEN [next |-> IF Len(temp1) < cnt THEN "return_none" ELSE "break",
          start_offset |-> so, temp |-> temp1]
    ELSE [next |-> "continue", start_offset |-> r.start_address - 1, temp |-> temp1]

\* the backward iteration for the string r that ends at start_offset
BackwardString(fw, cnt, so, temp, r) ==
    IF ~_check_is_func_name(r.string)
    THEN [next |-> IF Len(temp) < cnt THEN "return_none" ELSE "break",
          start_offset |-> so, temp |-> temp]
    ELSE BackwardGap(cnt, so, Append(temp, StrEntry(r)), r,
                     _get_prev_string_data(fw, r.start_address - 1))

\* an iteration of the backward loop at a printable byte
BackwardIteration(fw, cnt, so, temp) ==
    BackwardString(fw, cnt, so, temp, _get_prev_string_data(fw, so))

\* the forward iteration after a function name r was appended: nxt is the
\* string after it
ForwardGap(cnt, eo, temp1, r, nxt) ==
    IF nxt.kind = "IndexError"
    THEN [next |-> "IndexError", end_offset |-> eo, temp |-> temp1]
    ELSE IF nxt.kind = "none"
    THEN [next |-> "continue", end_offset |-> eo, temp |-> temp1]
    ELSE IF 4 < nxt.start_address - r.end_address
    THEN [next |-> IF Len(temp1) < cnt THEN "return_none" ELSE "break",
          end_offset |-> eo, temp |-> temp1]
    ELSE [next |-> "continue", end_offset |-> r.end_address, temp |-> temp1]

\* the forward iteration for the string r that starts at end_offset
ForwardString(fw, cnt, eo, temp, r) ==
    IF r.kind = "IndexError"
    THEN [next |-> "IndexError", end_offset |-> eo, temp |-> temp]
    ELSE IF ~_check_is_func_name(r.string)
    THEN IF Len(temp) < cnt
         THEN [next |-> "continue", end_offset |-> r.end_address, temp |-> <<>>]
         ELSE [next |-> "break", end_offset |-> eo, temp |-> temp]
    ELSE ForwardGap(cnt, eo, Append(temp, StrEntry(r)), r,
                    _get_next_string_data(fw, r.end_address))

\* an iteration of the forward loop at a printable byte
ForwardIteration(fw, cnt, eo, temp) ==
    ForwardString(fw, cnt, eo, temp, _get_next_string_data(fw, eo))

\* the place of the j-th entry of s after sorted(s, key=lambda x: (x[1]))
RankByStart(s, j) ==
    Cardinality({k \in 1..Len(s) :
        \/ s[k].start_address < s[j].start_address
        \/ (s[k].start_address = s[j].start_address /\ k <= j)})

SortByStart(s) ==
    Permuted(s, AsSeq([j \in 1..Len(s) |-> RankByStart(s, j)]))

\* the return of find_string_table_by_key_function_index for the sorted t
SortedBoundaries(t) ==
    IF t = <<>> THEN [fault |-> "IndexError", locate |-> None]
    ELSE [fault |-> "none",
          locate |-> <<Some(t[1].start_address), Some(t[Len(t)].end_address)>>]

\* the end of find_string_table_by_key_function_index: the boundaries, or
\* IndexError when nothing was accumulated
Boundaries(temp) == SortedBoundaries(SortByStart(temp))

---------------------------------------------------------------------------
(* StringTableDecoder *)

\* get_string_table reads the bytes from str_start_address on.  The outer
\* loop reads up to str_end_address until a byte is null; the inner loop
\* then reads up to str_end_address + 1 until a byte is not null, at
\* next_address, appends the record address..next_address and the outer loop
\* goes on from next_address, the start of the next record.  So a record
\* starts at str_start_address and at every later offset, up to
\* str_end_address + 1, of a byte that is not null and follows a null byte.
GstIsStart(fw, str_start_address, p) ==
    p = str_start_address \/ (At(fw, p) # 0 /\ At(fw, p - 1) = 0)

GstStarts(fw, str_start_address, str_end_address) ==
    SelectSeq([k \in 1..(Min(str_end_address + 1, Len(fw) - 1) - str_start_address + 1) |->
                   str_start_address + k - 1],
              LAMBDA p : GstIsStart(fw, str_start_address, p))

\* GstRecord with the record ended at the null byte z that closes the
\* string: the record of the bytes before the null
GstRecordToNull(fw, address, nz) ==
    LET z == Least({o \in address..(nz - 1) : At(fw, o) = 0})
    IN  [address |-> address, string |-> Slice(fw, address, z), length |-> z - address]

\* the record appended for the string at `address` when the inner loop
\* stops at nz
GstRecord(fw, address, nz) ==
    [address |-> address, string |-> Slice(fw, address, nz), length |-> nz - address]

\* the loops after the last record, whose end is `address`: a read at
\* len(firmware) raises IndexError.  The outer loop reads up to
\* str_end_address when no byte is null, the inner up to
\* str_end_address + 1.
GstLast(fw, address, str_end_address) ==
    IF address > str_end_address THEN "none"
    ELSE IF \E o \in address..Min(str_end_address, Len(fw) - 1) : At(fw, o) = 0
    THEN IF str_end_address + 1 >= Len(fw) THEN "IndexError" ELSE "none"
    ELSE IF str_end_address >= Len(fw) THEN "IndexError" ELSE "none"

\* the table for the starts of the records and the end of the loops:
\* self._string_table is assigned after the loops only
GstTable(fw, starts, last) ==
    IF last # "none" THEN [fault |-> last, table |-> <<>>]
    ELSE [fault |-> "none",
          table |-> [i \in 1..(Len(starts) - 1) |-> GstRecord(fw, starts[i], starts[i + 1])]]

\* with str_start_address at or past len(firmware) the first read raises
GstFrom(fw, str_start_address, str_end_address, starts) ==
    IF str_start_address > str_end_address THEN [fault |-> "none", table |-> <<>>]
    ELSE IF starts = <<>> THEN [fault |-> "IndexError", table |-> <<>>]
    ELSE GstTable(fw, starts, GstLast(fw, starts[Len(starts)], str_end_address))

\* get_string_table(str_start_address, str_end_address), both optional: with
\* None (Python 2 has None <= None) self._firmware[None] raises TypeError
get_string_table(fw, str_start_address, str_end_address) ==
    IF str_start_address = None \/ str_end_address = None
    THEN [fault |-> "TypeError", table |-> <<>>]
    ELSE GstFrom(fw, Val(str_start_address), Val(str_end_address),
                 GstStarts(fw, Val(str_start_address), Val(str_end_address)))

---------------------------------------------------------------------------
(* LoadAddressResolver.  Indices are the code's, from 0. *)

\* _check_fix that returns True without walking the run
CheckFixFirstOnly(sym, str, func_index, str_index) ==
    func_index < Len(sym) /\ str_index < Len(str)

\* _check_fix returns True in its iteration i = count - 1: every iteration
\* up to it found both indices in range, and every iteration before it
\* found the two lengths equal.  With count = 0 it returns None.
_check_fix(sym, str, func_index, str_index) ==
    /\ CheckCount(sym) > 0
    /\ \A i \in 0..(CheckCount(sym) - 1) :
           func_index + i < Len(sym) /\ str_index + i < Len(str)
    /\ \A i \in 0..(CheckCount(sym) - 2) :
           Some(WInt(At(str, str_index + i).length))
               = At(sym, func_index + i).symbol_name_length

\* the pairs at which the loops of find_loading_address return
Accepts(sym, str, func_index, str_index) ==
    /\ Some(WInt(At(str, str_index).length)) = At(sym, func_index).symbol_name_length
    /\ _check_fix(sym, str, func_index, str_index)

\* the loops of find_loading_address: the load address of the first accepted
\* pair, func_index first, None when the loops end
Resolve(sym, str) ==
    LET funcs == {f \in 0..(Len(sym) - 1) :
                     \E t \in 0..(Len(str) - 1) : Accepts(sym, str, f, t)}
        func_index == Least(funcs)
        str_index == Least({t \in 0..(Len(str) - 1) : Accepts(sym, str, func_index, t)})
    IN  IF funcs = {} THEN None
        ELSE Some(WSub(At(sym, func_index).symbol_name_addr,
                       WInt(At(str, str_index).address)))

---------------------------------------------------------------------------
(* KnownAddressProbe *)

\* the i-th iteration of the loop of _check_load_address: "continue",
\* "False" or the exception raised.  An offset of 65536 or more is past the
\* end of every image checked: _get_next_string_data returns None there.
CheckLoadString(offset, r) ==
    IF r.kind = "IndexError" THEN "IndexError"
    ELSE IF r.kind = "none" THEN "False"
    ELSE IF r.start_address # offset THEN "False"
    ELSE "continue"

CheckLoadOffset(fw, offset) ==
    IF WLeq(offset, WInt(0)) THEN "False"
    ELSE IF offset[1] > 0 THEN "False"
    ELSE CheckLoadString(offset[2], _get_next_string_data(fw, offset[2]))

CheckLoadAt(fw, sym, address, i) ==
    CheckLoadOffset(fw, WSub(At(sym, i).symbol_name_addr, address))

\* the loop of _check_load_address: it ends in the first iteration that
\* does not continue, and returns True after the last
CheckLoadFrom(fw, sym, address, stops) ==
    IF stops = {} THEN "True" ELSE CheckLoadAt(fw, sym, address, Least(stops))

_check_load_address(fw, o, address) ==
    IF o.has_symbol # Some(TRUE) THEN "False"
    ELSE CheckLoadFrom(fw, o.symbol_table, address,
                       {i \in 0..(CheckCount(o.symbol_table) - 1) :
                            CheckLoadAt(fw, o.symbol_table, address, i) # "continue"})

\* the loop of quick_test from the k-th known address on (k from 1)
RECURSIVE ProbeFrom(_, _, _)

Probed(fw, o, k, r) ==
    IF r = "True" THEN [fault |-> "none", address |-> Some(known_address[k])]
    ELSE IF r = "False" THEN ProbeFrom(fw, o, k + 1)
    ELSE [fault |-> r, address |-> None]

ProbeFrom(fw, o, k) ==
    IF k > Len(known_address) THEN [fault |-> "none", address |-> None]
    ELSE Probed(fw, o, k, _check_load_address(fw, o, known_address[k]))

\* quick_test after prepare and the loop over known_address
QuickTested(o1, p) ==
    IF p.fault # "none" THEN [obj |-> [o1 EXCEPT !.fault = p.fault], ret |-> None]
    ELSE IF p.address # None
    THEN [obj |-> [o1 EXCEPT !.load_address = p.address], ret |-> p.address]
    ELSE [obj |-> o1, ret |-> None]

QuickTestPrepared(fw, o1) ==
    IF o1.fault # "none" \/ o1.has_symbol = Some(FALSE) THEN [obj |-> o1, ret |-> None]
    ELSE QuickTested(o1, ProbeFrom(fw, o1, 1))

quick_test(fw, v, o) == QuickTestPrepared(fw, prepare(fw, v, o))

---------------------------------------------------------------------------
(* The images checked.  An image is a prefix, a run of symbol records and  *)
(* either a cut record at the end of the image or a region of strings.     *)

\* bounds of the images and of the runs
MaxPrefix == 1
MaxExtra == 1
MaxRuns == 2
MaxAccum == 110

Versions == {5, 6}

\* struct.pack('>I', x) (e = 1) and struct.pack('<I', x) (e = 2)
Pack(e, x) ==
    LET b == <<x[1] \div 256, x[1] % 256, x[2] \div 256, x[2] % 256>>
    IN  IF e = 1 THEN b ELSE <<b[4], b[3], b[2], b[1]>>

\* the strings s[lo], ..., s[hi] one after the other
RECURSIVE Concat(_, _, _)
Concat(s, lo, hi) ==
    IF lo > hi THEN <<>>
    ELSE IF lo = hi THEN s[lo]
    ELSE Concat(s, lo, (lo + hi) \div 2) \o Concat(s, (lo + hi) \div 2 + 1, hi)

\* the i-th name of a region: "a" or "ab", its null, and a null of padding
\* after every third name
NameItem(i) ==
    [b |-> (IF i % 2 = 0 THEN <<97>> ELSE <<97, 98>>) \o <<0>>
             \o (IF i % 3 = 2 THEN <<0>> ELSE <<>>),
     n |-> TRUE]

\* the names i, ..., i + n - 1
NameItems(i, n) == AsSeq([k \in 1..n |-> NameItem(i + k - 1)])

Junk(b) == [b |-> b, n |-> FALSE]

\* "bzero" and its null, or an ordinary name in an image without the key word
AnchorItem(present) ==
    [b |-> (IF present THEN function_name_key_words[1] ELSE <<98>>) \o <<0>>, n |-> TRUE]

\* what lies before the names: nothing, a string that is no function name
\* ("a%"), or a string and a gap of 5 null bytes
LeftItems(kind) ==
    IF kind = "bad" THEN <<Junk(<<97, 37, 0>>)>>
    ELSE IF kind = "gap" THEN <<Junk(<<97, 0, 0, 0, 0, 0>>)>>
    ELSE <<>>

\* what lies after the names: a string that is no function name ("%a") right
\* after the last name's null ("bad1") or after one more null ("bad2"), a
\* gap of 5 nulls and a string ("gap"), nulls up to the end of the image
\* ("zeros"), or a string that runs to the end of the image ("open")
RightItems(kind) ==
    IF kind = "bad1" THEN <<Junk(<<37, 97, 0>>)>>
    ELSE IF kind = "bad2" THEN <<Junk(<<0, 37, 97, 0>>)>>
    ELSE IF kind = "gap" THEN <<Junk(<<0, 0, 0, 0, 97, 0>>)>>
    ELSE IF kind = "zeros" THEN <<Junk(<<0, 0>>)>>
    ELSE <<Junk(<<97>>)>>

\* a region: nl names, the key word, nr names, the right stop, and `more`
\* names closed by the string "%"
RegionItems(L) ==
    LeftItems(L.left) \o NameItems(0, L.nl) \o <<AnchorItem(L.anchor)>>
    \o NameItems(L.nl + 1, L.nr) \o RightItems(L.right)
    \o (IF L.more > 0
        THEN NameItems(L.nl + 1 + L.nr, L.more) \o <<Junk(<<37, 0>>)>>
        ELSE <<>>)

ItemBytes(items) == Concat([k \in 1..Len(items) |-> items[k].b], 1, Len(items))

\* the offset, in the region, of its k-th item
ItemOffset(items, k) == Len(ItemBytes(SubSeq(items, 1, k - 1)))

\* the offsets, in the region, of its names
NamedItems(items) == SelectSeq([k \in 1..Len(items) |-> k], LAMBDA k : items[k].n)

ItemNames(items) ==
    AsSeq([i \in 1..Len(NamedItems(items)) |-> ItemOffset(items, NamedItems(items)[i])])

\* the address of the k-th name (k from 0) for a list `names` of offsets:
\* past the list, 2 bytes further for each name
NameOffset(names, k) ==
    IF k < Len(names) THEN At(names, k)
    ELSE IF names = <<>> THEN 2 * k
    ELSE names[Len(names)] + 2 * (k - Len(names) + 1)

\* the address the k-th symbol (by name) holds: base + offset of its name;
\* "flat" addresses are 2 bytes apart, "same" are all equal, "mixed" differ
\* in both halves from one symbol to the next; with "pair" the symbol of
\* the name 2 holds the address of the name 1, and the table is little
\* endian
SymbolNameAddr(style, naming, names, at, k) ==
    LET base == IF naming = "known" THEN known_address[2][1] ELSE 2 * known_address[2][1]
        a == at + (IF naming = "flat" THEN 2 * k ELSE NameOffset(names, k))
    IN  IF style = "same" THEN <<base, at>>
        ELSE IF style = "mixed" THEN <<base + (k % 2), a>>
        ELSE IF style = "pair" /\ k = 2 THEN <<base, at + NameOffset(names, 1)>>
        ELSE <<base, a>>

PackStyle(style, x) == Pack(IF style \in {"little", "pair"} THEN 2 ELSE 1, x)

\* one symbol record with the name address x
Record(v, style, x) ==
    IF v = 5 THEN Zero4 \o PackStyle(style, x) \o <<0, 0, 0, 2>> \o <<0, 0, 5, 0>>
    ELSE Zero4 \o PackStyle(style, x) \o <<0, 0, 0, 2>> \o Zero4 \o <<0, 0, 5, 0>>

\* n records; the record at position j holds the name (j + 1) mod n, so the
\* table is not sorted by name
Records(v, style, naming, names, at, n) ==
    Concat([j \in 1..n |-> Record(v, style, SymbolNameAddr(style, naming, names, at, j % n))],
           1, n)

\* a record cut by the end of the image that _check_symbol_format_simple
\* accepts: "cutA" keeps 8 bytes, "cutB" 12 (version 5) or 16 (version 6)
CutRecord(v, style, kind, x) ==
    IF kind = "cutA"
    THEN Zero4 \o (IF v = 5 THEN <<0, 0, 5, 0>> ELSE <<0, 0, 3, 0>>)
    ELSE IF v = 5 THEN Zero4 \o PackStyle(style, x) \o <<0, 0, 5, 0>>
    ELSE Zero4 \o PackStyle(style, x) \o Zero4 \o <<0, 0, 5, 0>>

Image(v, prefix, n, style, naming, ending, L) ==
    LET at == prefix + n * symbol_interval(v)
        items == IF ending = "strings" THEN RegionItems(L) ELSE <<>>
        names == ItemNames(items)
    IN  [k \in 1..prefix |-> 255]
        \o Records(v, style, naming, names, at, n)
        \o (IF ending = "strings" THEN ItemBytes(items)
            ELSE CutRecord(v, style, ending, SymbolNameAddr(style, naming, names, at, n)))

\* the usual region: 2 names, the key word, 9 names, a string that is no name
StdLayout == [nl |-> 2, left |-> "table", nr |-> RunLength - 1, right |-> "bad1",
              more |-> 0, anchor |-> TRUE]

\* the regions of the locator: each way a direction of the scan can stop,
\* before and after `count` names are accumulated
SuccessLayouts ==
    {[StdLayout EXCEPT !.right = r] : r \in {"bad1", "bad2", "gap"}}
    \cup {[StdLayout EXCEPT !.nl = RunLength, !.left = l, !.nr = 3] : l \in {"bad", "gap"}}
    \cup {[StdLayout EXCEPT !.nr = 3, !.right = r, !.more = RunLength] : r \in {"bad1", "gap"}}

FailureLayouts ==
    {[StdLayout EXCEPT !.nr = nr, !.right = r] :
         nr \in {3, RunLength - 1}, r \in {"zeros", "open"}}
    \cup {[StdLayout EXCEPT !.nr = 3, !.right = r] : r \in {"bad1", "bad2", "gap"}}
    \cup {[StdLayout EXCEPT !.left = l] : l \in {"bad", "gap"}}
    \cup {[StdLayout EXCEPT !.anchor = FALSE]}

ScannerImages ==
    {[firmware |-> Image(v, prefix, n, style, "known", ending, StdLayout), vx_version |-> v] :
        v \in Versions, prefix \in 0..MaxPrefix,
        n \in (RunLength - 1)..(RunLength + MaxExtra),
        style \in {"big", "little", "same", "mixed"},
        ending \in {"strings", "cutA", "cutB"}}

LocatorImages ==
    {[firmware |-> Image(v, 1, RunLength, IF v = 5 THEN "big" ELSE "little", naming,
                         "strings", L),
      vx_version |-> v] :
        v \in Versions, naming \in {"known", "unknown", "flat"}, L \in SuccessLayouts}
    \cup
    {[firmware |-> Image(v, 1, RunLength, IF v = 5 THEN "big" ELSE "little", "known",
                         "strings", L),
      vx_version |-> v] :
        v \in Versions, L \in FailureLayouts}

\* images with more than default_check_count symbols: the names before the
\* key word are as many as the scan and the resolver count
LargeLayout == [StdLayout EXCEPT !.nl = default_check_count, !.nr = 3]

LargeImages ==
    {[firmware |-> Image(v, 1, default_check_count + 1, IF v = 5 THEN "big" ELSE "little",
                         naming, "strings", LargeLayout),
      vx_version |-> v] :
        v \in Versions, naming \in {"known", "flat"}}

\* the images of the round trip: a string table of names at most one null
\* of padding apart, as many symbols as names, each holding base + the
\* offset of its name; the last name has a null of padding or none, and
\* what follows is a string ("bad1"), nulls and a string ("bad2", "gap"),
\* nulls up to the end of the image ("zeros"), or the last name runs to the
\* end of the image ("open")
RoundTripLayouts ==
    {[StdLayout EXCEPT !.nr = nr, !.right = r] :
        nr \in {RunLength - 2, RunLength - 1},
        r \in {"bad1", "bad2", "gap", "zeros", "open"}}

RoundTripBase(naming) ==
    <<IF naming = "known" THEN known_address[2][1] ELSE 2 * known_address[2][1], 0>>

RoundTripBuilt ==
    {[firmware |-> Image(v, 1, L.nl + 1 + L.nr, IF v = 5 THEN "big" ELSE "little", naming,
                         "strings", L),
      vx_version |-> v, base |-> RoundTripBase(naming)] :
        v \in Versions, naming \in {"known", "unknown"}, L \in RoundTripLayouts}

RoundTripImages ==
    {[firmware |-> x.firmware, vx_version |-> x.vx_version] : x \in RoundTripBuilt}

\* images without a symbol table: no record at all or 3 records, followed
\* by the names or by a cut record that ends the image
SmallImages ==
    {[firmware |-> Image(v, 1, n, IF v = 5 THEN "big" ELSE "little", "known", ending,
                         StdLayout),
      vx_version |-> v] :
        v \in Versions, n \in {0, 3}, ending \in {"strings", "cutA"}}

\* little endian tables whose first two records hold the same name address
PairImages ==
    {[firmware |-> Image(v, 1, RunLength, "pair", "known", "strings", StdLayout),
      vx_version |-> v] :
        v \in Versions}

Images ==
    ScannerImages \cup LocatorImages \cup LargeImages \cup RoundTripImages \cup SmallImages
    \cup PairImages

---------------------------------------------------------------------------
(* The target and its operations *)

\* VxTarget.__init__ (endian and logger left to their defaults), no call made
Fresh ==
    /\ endian = None
    /\ symbol_table_start = None
    /\ symbol_table_end = None
    /\ string_table = <<>>
    /\ symbol_table = <<>>
    /\ load_address = None
    /\ has_symbol = None
    /\ pc = "idle"
    /\ op = "none"
    /\ ret = None
    /\ fault = "none"
    /\ count = 0
    /\ start_offset = 0
    /\ end_offset = 0
    /\ temp_str_tab_data = <<>>
    /\ locate = None
    /\ runs = 0

Init ==
    /\ \E im \in Images : firmware = im.firmware /\ vx_version = im.vx_version
    /\ data = <<>>
    /\ Fresh

\* the fields of the object after a call
SetObj(o) ==
    /\ endian' = o.endian
    /\ symbol_table_start' = o.symbol_table_start
    /\ symbol_table_end' = o.symbol_table_end
    /\ string_table' = o.string_table
    /\ symbol_table' = o.symbol_table
    /\ load_address' = o.load_address
    /\ has_symbol' = o.has_symbol
    /\ fault' = o.fault

CanCall == pc = "idle" /\ fault = "none" /\ runs < MaxRuns

\* target.prepare()
Prepare ==
    /\ CanCall
    /\ \E o \in {prepare(firmware, vx_version, Obj)} : SetObj(o)
    /\ op' = "prepare"
    /\ ret' = None
    /\ runs' = runs + 1
    /\ UNCHANGED <<firmware, vx_version, pc, locVars, data>>

\* target.quick_test()
QuickTest ==
    /\ CanCall
    /\ \E r \in {quick_test(firmware, vx_version, Obj)} : SetObj(r.obj) /\ ret' = r.ret
    /\ op' = "quick_test"
    /\ runs' = runs + 1
    /\ UNCHANGED <<firmware, vx_version, pc, locVars, data>>

\* self._firmware.index(pat): the least offset of pat, None for ValueError
IndexOf(fw, pat) ==
    FirstUp(0, Len(fw) - Len(pat),
            [i \in 0..(Len(fw) - Len(pat)) |-> Slice(fw, i, i + Len(pat)) = pat])

\* target.find_loading_address(), up to the loops of
\* find_string_table_by_key_function_index.  The test
\* `key_word in self._firmware is False` is never true.
FindLoadingAddress ==
    /\ CanCall
    /\ \E o \in {prepare(firmware, vx_version, Obj)} :
       \E key \in {IndexOf(firmware, <<0>> \o function_name_key_words[1] \o <<0>>)} :
           IF o.fault # "none" \/ o.has_symbol = Some(FALSE)
           THEN /\ SetObj(o)
                /\ UNCHANGED <<pc, locVars>>
           ELSE IF key = None
           THEN /\ SetObj([o EXCEPT !.fault = "ValueError"])
                /\ UNCHANGED <<pc, locVars>>
           ELSE /\ SetObj(o)
                /\ pc' = "back"
                /\ count' = CheckCount(o.symbol_table)
                /\ start_offset' = Val(key)
                /\ end_offset' = Val(key)
                /\ temp_str_tab_data' = <<>>
                /\ locate' = None
    /\ op' = "find_loading_address"
    /\ ret' = None
    /\ runs' = runs + 1
    /\ UNCHANGED <<firmware, vx_version, data>>

\* the loops of the locator end: it returns the boundaries, or raises
Located(temp) ==
    \E b \in {Boundaries(temp)} :
        /\ temp_str_tab_data' = temp
        /\ locate' = b.locate
        /\ fault' = b.fault
        /\ pc' = IF b.fault = "none" THEN "located" ELSE "idle"

\* the backward loop: the iterations that skip bytes that are not printable,
\* and then one iteration at a printable byte or the end of the loop
BackwardStep ==
    /\ pc = "back"
    /\ \E so \in {SkipBack(firmware, start_offset)} :
           IF so <= 0
           THEN /\ start_offset' = so
                /\ pc' = "fwd"
                /\ UNCHANGED <<temp_str_tab_data, locate, fault>>
           ELSE \E it \in {BackwardIteration(firmware, count, so, temp_str_tab_data)} :
                /\ start_offset' = it.start_offset
                /\ temp_str_tab_data' = it.temp
                /\ pc' = CASE it.next = "continue" -> "back"
                           [] it.next = "break" -> "fwd"
                           [] it.next = "return_none" -> "located"
                           [] OTHER -> "idle"
                /\ locate' = IF it.next = "return_none" THEN <<None, None>> ELSE locate
                /\ fault' = IF it.next = "TypeError" THEN "TypeError" ELSE fault
    /\ UNCHANGED <<firmware, vx_version, objVars, op, ret, count, end_offset, data, runs>>

\* the forward loop, likewise; the sort and the return follow its end
ForwardStep ==
    /\ pc = "fwd"
    /\ Len(temp_str_tab_data) < MaxAccum
    /\ \E eo \in {SkipFwd(firmware, end_offset)} :
           IF eo >= Len(firmware)
           THEN /\ end_offset' = eo
                /\ Located(temp_str_tab_data)
           ELSE \E it \in {ForwardIteration(firmware, count, eo, temp_str_tab_data)} :
                /\ end_offset' = it.end_offset
                /\ CASE it.next = "continue" ->
                          /\ temp_str_tab_data' = it.temp
                          /\ UNCHANGED <<pc, locate, fault>>
                     [] it.next = "break" -> Located(it.temp)
                     [] it.next = "return_none" ->
                          /\ temp_str_tab_data' = it.temp
                          /\ locate' = <<None, None>>
                          /\ pc' = "located"
                          /\ UNCHANGED fault
                     [] OTHER ->
                          /\ temp_str_tab_data' = it.temp
                          /\ fault' = it.next
                          /\ pc' = "idle"
                          /\ UNCHANGED locate
    /\ UNCHANGED <<firmware, vx_version, objVars, op, ret, count, start_offset, data, runs>>

\* find_loading_address after the locator returned: get_string_table and
\* the loops over the two tables
FinishLoading ==
    /\ pc = "located"
    /\ \E g \in {get_string_table(firmware, locate[1], locate[2])} :
       \E l \in {IF g.fault = "none" THEN Resolve(symbol_table, g.table) ELSE None} :
           /\ string_table' = g.table
           /\ fault' = g.fault
           /\ IF l # None
              THEN load_address' = l /\ ret' = l
              ELSE UNCHANGED load_address /\ ret' = None
    /\ pc' = "idle"
    /\ UNCHANGED <<firmware, vx_version, endian, symbol_table_start, symbol_table_end,
                   symbol_table, has_symbol, op, locVars, data, runs>>

\* target.cleanup()
Cleanup ==
    /\ pc = "idle"
    /\ fault = "none"
    /\ runs > 0
    /\ endian' = None
    /\ symbol_table_start' = None
    /\ symbol_table_end' = None
    /\ string_table' = <<>>
    /\ symbol_table' = <<>>
    /\ load_address' = None
    /\ has_symbol' = None
    /\ op' = "none"
    /\ ret' = None
    /\ count' = 0
    /\ start_offset' = 0
    /\ end_offset' = 0
    /\ temp_str_tab_data' = <<>>
    /\ locate' = None
    /\ runs' = 0
    /\ UNCHANGED <<firmware, vx_version, pc, fault, data>>

Next ==
    \/ Prepare
    \/ QuickTest
    \/ FindLoadingAddress
    \/ BackwardStep
    \/ ForwardStep
    \/ FinishLoading
    \/ Cleanup

Spec == Init /\ [][Next]_vars

---------------------------------------------------------------------------
(* _check_symbol_format_simple as a function of its window: the windows    *)
(* are the slices check_data[i * interval:(i + 1) * interval] the callers  *)
(* pass, of every length up to one record.                                 *)

\* a record of version 5 or 6, field by field, cut to its first n bytes
Window(v, f0, f1, f2, f3, sign, n) ==
    Slice(f0 \o f1 \o f2 \o (IF v = 5 THEN <<>> ELSE f3) \o sign, 0, n)

Windows(v) ==
    {Window(v, f0, f1, f2, f3, sign, n) :
        f0 \in {Zero4, <<0, 0, 0, 1>>},
        f1 \in {Zero4, <<0, 1, 0, 0>>, <<0, 0, 5, 0>>, <<0, 0, 3, 0>>},
        f2 \in {Zero4, <<0, 0, 0, 2>>},
        f3 \in {Zero4, <<0, 0, 0, 1>>},
        sign \in {<<0, 0, 3, 0>>, <<0, 0, 5, 0>>, <<0, 0, 7, 0>>, <<0, 0, 9, 0>>,
                  <<0, 0, 17, 0>>, <<0, 0, 6, 0>>},
        n \in 0..symbol_interval(v)}

InitFmt ==
    /\ firmware = <<>>
    /\ vx_version \in Versions
    /\ data \in Windows(vx_version)
    /\ Fresh

\* self._check_symbol_format_simple(data)
CheckSymbolFormatSimple ==
    /\ op = "none"
    /\ op' = "_check_symbol_format_simple"
    /\ ret' = Some(_check_symbol_format_simple(vx_version, data))
    /\ UNCHANGED <<firmware, vx_version, objVars, pc, fault, locVars, data, runs>>

NextFmt == CheckSymbolFormatSimple

SpecFmt == InitFmt /\ [][NextFmt]_vars

---------------------------------------------------------------------------
(* Properties.  A call has returned or raised when op is not "none"; every *)
(* call runs prepare first.                                                *)

interval == symbol_interval(vx_version)

\* the record-sized window of the image at offset o
RecordWindow(o) == Slice(firmware, o, o + interval)

\* o starts a run of 10 consecutive windows that pass the matcher, with the
\* cross-check of version 5
StartsTable(o) == _check_symbol_format(firmware, vx_version, o)

TableOffsets == {o \in 0..(Len(firmware) - 1) : StartsTable(o)}

\* C1: after find_symbol_table, symbol_table_start is the smallest offset of
\* the image that starts a run of 10 windows passing the matcher, with
\* has_symbol True; has_symbol is False, with start and end unset, only when
\* the image has no such offset.
C1_ScannerFindsFirstTable ==
    op # "none" =>
        IF TableOffsets = {}
        THEN has_symbol = Some(FALSE) /\ symbol_table_start = None
                                      /\ symbol_table_end = None
        ELSE has_symbol = Some(TRUE) /\ symbol_table_start = Some(Least(TableOffsets))

\* a table at offset 0: symbol_table_start is 0, which the test of line 197
\* takes for unset, and has_symbol is False
C1_TableAtOffsetZeroMissed ==
    /\ op # "none"
    /\ 0 \in TableOffsets
    /\ symbol_table_start = Some(0)
    /\ has_symbol = Some(FALSE)

\* the number of records between symbol_table_start and symbol_table_end
TableRecords == (Val(symbol_table_end) - Val(symbol_table_start)) \div interval

RecordOffsets == {Val(symbol_table_start) + j * interval : j \in 0..(TableRecords - 1)}

\* C2: whenever a table is found, symbol_table_end is symbol_table_start +
\* k * interval with k >= 10, the windows of the k records all pass the
\* matcher, the window at symbol_table_end does not, and every decoded
\* record's offset is the offset of one of the k records.
C2_TableEndAndOffsets ==
    has_symbol = Some(TRUE) =>
        /\ symbol_table_start # None /\ symbol_table_end # None
        /\ Val(symbol_table_end) = Val(symbol_table_start) + TableRecords * interval
        /\ TableRecords >= RunLength
        /\ \A o \in RecordOffsets :
               _check_symbol_format_simple(vx_version, RecordWindow(o))
        /\ ~_check_symbol_format_simple(vx_version, RecordWindow(Val(symbol_table_end)))
        /\ \A i \in 1..Len(symbol_table) : symbol_table[i].offset \in RecordOffsets

\* a table of more than 10 records, found and decoded
C2_LongTableDecoded ==
    /\ has_symbol = Some(TRUE)
    /\ fault = "none"
    /\ TableRecords > RunLength
    /\ Len(symbol_table) = TableRecords

\* the rule of the matcher as specified: a window shorter than a record is
\* rejected, the fields of a whole record are tested
ReferenceRule(v, d) ==
    /\ Len(d) >= symbol_interval(v)
    /\ Slice(d, 0, 4) = Zero4
    /\ Slice(d, 4, 8) # Zero4
    /\ IF v = 5
       THEN Slice(d, 8, 12) # Zero4 /\ Slice(d, 12, 16) \in symbol_format_sign_5
       ELSE Slice(d, 12, 20) \in symbol_format_sign_6

\* C3: _check_symbol_format_simple returns what the reference rule of the
\* version gives, for every window; a window shorter than one record is
\* rejected.
C3_MatcherIsReferenceRule ==
    op = "_check_symbol_format_simple" => ret = Some(ReferenceRule(vx_version, data))

\* C3 for the windows of a whole record alone
C3_WholeRecordIsReferenceRule ==
    (op = "_check_symbol_format_simple" /\ Len(data) = interval)
        => ret = Some(ReferenceRule(vx_version, data))

\* a short window is accepted
C3_ShortWindowAccepted ==
    op = "_check_symbol_format_simple" /\ Len(data) < interval /\ ret = Some(TRUE)

\* bytes [a, b) of the j-th record of the table
RecordField(j, a, b) ==
    Slice(firmware, Val(symbol_table_start) + j * interval + a,
          Val(symbol_table_start) + j * interval + b)

\* C4: for a table found, the endian is Big (1) if and only if bytes [4:6)
\* of record 0 equal bytes [4:6) of record 1, and Little (2) otherwise; it
\* is one of the two after the call.
C4_EndianRule ==
    has_symbol = Some(TRUE) =>
        /\ endian \in {Some(1), Some(2)}
        /\ endian = Some(1) <=> RecordField(0, 4, 6) = RecordField(1, 4, 6)

\* Little by default: neither bytes [4:6) nor bytes [6:8) match
C4_LittleByDefault ==
    /\ has_symbol = Some(TRUE)
    /\ endian = Some(2)
    /\ RecordField(0, 4, 6) # RecordField(1, 4, 6)
    /\ RecordField(0, 6, 8) # RecordField(1, 6, 8)

\* the 4-byte unsigned value of b in the endian e
Unsigned(e, b) ==
    IF e = 1 THEN <<b[1] * 256 + b[2], b[3] * 256 + b[4]>>
    ELSE <<b[4] * 256 + b[3], b[2] * 256 + b[1]>>

\* the symbol table is what the decoder is specified to give for the table
\* between symbol_table_start and symbol_table_end
DecodedAsSpecified ==
    /\ symbol_table_start # None /\ symbol_table_end # None /\ endian # None
    /\ Len(symbol_table) = TableRecords
    /\ \A o \in RecordOffsets : \E i \in 1..Len(symbol_table) : symbol_table[i].offset = o
    /\ \A i \in 1..Len(symbol_table) :
          /\ symbol_table[i].offset \in RecordOffsets
          /\ Len(RecordWindow(symbol_table[i].offset)) >= 12
          /\ symbol_table[i].symbol_name_addr
                 = Unsigned(Val(endian), Slice(firmware, symbol_table[i].offset + 4,
                                                symbol_table[i].offset + 8))
          /\ symbol_table[i].symbol_dest_addr
                 = Unsigned(Val(endian), Slice(firmware, symbol_table[i].offset + 8,
                                                symbol_table[i].offset + 12))
    /\ \A i \in 1..(Len(symbol_table) - 1) :
          /\ WLeq(symbol_table[i].symbol_name_addr, symbol_table[i + 1].symbol_name_addr)
          /\ symbol_table[i].symbol_name_length
                 = Some(WSub(symbol_table[i + 1].symbol_name_addr,
                             symbol_table[i].symbol_name_addr))
    /\ symbol_table # <<>> => symbol_table[Len(symbol_table)].symbol_name_length = None

\* C5: after one prepare on a fresh target whose image has a table, the
\* symbol table holds one record per record offset of the table, with the
\* unsigned values at +4 and +8 in the detected endian, ordered by name
\* address, every name length but the last the difference to the next name
\* address, the last one None.
C5_DecodedTable ==
    (op = "prepare" /\ runs = 1 /\ TableOffsets # {}) => DecodedAsSpecified

\* a table whose last window is a record cut by the end of the image:
\* struct.unpack raises and the records decoded so far are left unsorted
C5_CutRecordRaises ==
    /\ op = "prepare" /\ runs = 1
    /\ has_symbol = Some(TRUE)
    /\ fault = "struct.error"
    /\ Len(symbol_table) = TableRecords - 1

\* C6: when prepare runs a second time on the same target, as in a
\* quick_test followed by find_loading_address, symbol_table_start,
\* symbol_table_end, the endian and the decoded symbol table are after the
\* second run what they were after the first.
C6_SecondPrepareIdentical ==
    [][(runs = 1 /\ runs' = 2) =>
           /\ symbol_table_start' = symbol_table_start
           /\ symbol_table_end' = symbol_table_end
           /\ endian' = endian
           /\ symbol_table' = symbol_table]_vars

\* the symbol table after the find_loading_address that follows a
\* quick_test holds every record twice
C6_TableDoubled ==
    /\ runs = 2
    /\ op = "find_loading_address"
    /\ has_symbol = Some(TRUE)
    /\ Len(symbol_table) = 2 * TableRecords

\* the string that an iteration of the forward loop extracts, and the one
\* that an iteration of the backward loop extracts
ForwardExtracted == _get_next_string_data(firmware, SkipFwd(firmware, end_offset))
BackwardExtracted == _get_prev_string_data(firmware, SkipBack(firmware, start_offset))

ForwardExtracts ==
    pc = "fwd" /\ SkipFwd(firmware, end_offset) < Len(firmware) /\ ForwardExtracted.kind = "ok"
BackwardExtracts ==
    pc = "back" /\ SkipBack(firmware, start_offset) > 0 /\ BackwardExtracted.kind = "ok"

\* the extracted string fails the function-name predicate
NameFails ==
    \/ ForwardExtracts /\ ~_check_is_func_name(ForwardExtracted.string)
    \/ BackwardExtracts /\ ~_check_is_func_name(BackwardExtracted.string)

\* the extracted string is a name and the gap to the string next to it
\* exceeds 4 bytes
ForwardNeighbour == _get_next_string_data(firmware, ForwardExtracted.end_address)
BackwardNeighbour == _get_prev_string_data(firmware, BackwardExtracted.start_address - 1)

GapExceeds ==
    \/ /\ ForwardExtracts /\ _check_is_func_name(ForwardExtracted.string)
       /\ ForwardNeighbour.kind = "ok"
       /\ 4 < ForwardNeighbour.start_address - ForwardExtracted.end_address
    \/ /\ BackwardExtracts /\ _check_is_func_name(BackwardExtracted.string)
       /\ BackwardNeighbour.kind = "ok"
       /\ 4 < BackwardExtracted.start_address - BackwardNeighbour.end_address

\* the direction stops in this step, with the boundary accepted if at least
\* `count` names are accumulated, and with (None, None) returned otherwise
StopsByTheRule ==
    /\ pc' # pc
    /\ IF Len(temp_str_tab_data') >= count
       THEN locate' # <<None, None>>
       ELSE pc' = "located" /\ locate' = <<None, None>>

\* C7: in each direction, when the next extracted string fails the
\* function-name predicate or the gap to the adjacent string exceeds 4, the
\* direction stops: the boundary is accepted with at least count names,
\* (None, None) is returned otherwise; names accumulated are never
\* discarded to go on scanning.
C7_SameStopRuleBothWays ==
    [][/\ (NameFails \/ GapExceeds) => StopsByTheRule
       /\ pc \in {"back", "fwd"} =>
              /\ Len(temp_str_tab_data') >= Len(temp_str_tab_data)
              /\ SubSeq(temp_str_tab_data', 1, Len(temp_str_tab_data))
                     = temp_str_tab_data]_vars

\* the forward scan has discarded the names and gone on to the end of the
\* image: the sort is of an empty list and [0] raises IndexError
C7_NamesDiscarded ==
    /\ op = "find_loading_address" /\ pc = "idle"
    /\ fault = "IndexError"
    /\ end_offset >= Len(firmware)
    /\ temp_str_tab_data = <<>>

\* C7 with the forward name failure left out: the backward direction and
\* the gap rule are as claimed
C7_BackwardAndGapRule ==
    [][/\ ((NameFails /\ pc = "back") \/ GapExceeds) => StopsByTheRule
       /\ pc = "back" =>
              /\ Len(temp_str_tab_data') >= Len(temp_str_tab_data)
              /\ SubSeq(temp_str_tab_data', 1, Len(temp_str_tab_data))
                     = temp_str_tab_data]_vars

\* get_string_table has run for the boundaries in `locate`
StringTableDecoded ==
    /\ op = "find_loading_address" /\ pc = "idle"
    /\ locate # None /\ locate[1] # None /\ locate[2] # None

tableStart == Val(locate[1])
tableEnd == Val(locate[2])

NullsIn(a, b) == {o \in a..(b - 1) : At(firmware, o) = 0}

\* C8, as the code has it: a record is its string's bytes, none of them
\* null, and then the null bytes up to the next string, at least one; its
\* bytes are the slice of the image at [address, address + length), and its
\* address is the table start or follows a null byte.
C8_RecordIsStringAndNulls ==
    StringTableDecoded =>
        \A i \in 1..Len(string_table) :
            LET r == string_table[i]
                nulls == NullsIn(r.address, r.address + r.length)
            IN  /\ r.string = Slice(firmware, r.address, r.address + r.length)
                /\ Len(r.string) = r.length
                /\ nulls # {}
                /\ Least(nulls) > r.address
                /\ nulls = Least(nulls)..(r.address + r.length - 1)
                /\ r.address = tableStart \/ At(firmware, r.address - 1) = 0

C8_RecordsDecoded ==
    StringTableDecoded /\ fault = "none" /\ Len(string_table) > RunLength

\* C8: the bytes of a record hold no null byte, are the slice of the image
\* at [address, address + length), and the address is the table start or
\* follows a null byte.
C8_NoNullInRecord ==
    StringTableDecoded =>
        \A i \in 1..Len(string_table) :
            LET r == string_table[i]
            IN  /\ NullsIn(r.address, r.address + r.length) = {}
                /\ r.string = Slice(firmware, r.address, r.address + r.length)
                /\ r.address = tableStart \/ At(firmware, r.address - 1) = 0

\* C9: get_string_table(tableStart, tableEnd) partitions the range: the
\* first record is at tableStart, each next record starts where the one
\* before ends, every offset of [tableStart, tableEnd] is in a record (the
\* last string is reported), and no byte is read outside the image.
C9_Partition ==
    StringTableDecoded =>
        /\ fault = "none"
        /\ string_table # <<>>
        /\ string_table[1].address = tableStart
        /\ \A i \in 1..(Len(string_table) - 1) :
               string_table[i + 1].address = string_table[i].address + string_table[i].length
        /\ string_table[Len(string_table)].address + string_table[Len(string_table)].length
               > tableEnd

\* C9 up to the last record: the records reported are adjacent from
\* tableStart on
C9_AdjacentRecords ==
    (StringTableDecoded /\ fault = "none" /\ string_table # <<>>) =>
        /\ string_table[1].address = tableStart
        /\ \A i \in 1..(Len(string_table) - 1) :
               string_table[i + 1].address = string_table[i].address + string_table[i].length

\* the last string of the range is not reported
C9_LastStringDropped ==
    /\ StringTableDecoded /\ fault = "none" /\ string_table # <<>>
    /\ string_table[Len(string_table)].address + string_table[Len(string_table)].length
           <= tableEnd

\* find_loading_address has returned from its loops over the two tables
Resolved == StringTableDecoded /\ fault = "none"

CheckedCount == Min(Len(symbol_table), default_check_count)

\* the entries s + k and t + k (from 0) have the same length
SameLength(s, t, k) ==
    At(symbol_table, s + k).symbol_name_length = Some(WInt(At(string_table, t + k).length))

\* the pair (s, t) starts a run of CheckedCount entries within both tables
\* whose lengths match at the first `checked` places
Verifies(s, t, checked) ==
    /\ s + CheckedCount - 1 < Len(symbol_table)
    /\ t + CheckedCount - 1 < Len(string_table)
    /\ \A k \in 0..(checked - 1) : SameLength(s, t, k)

Pairs == (0..(Len(symbol_table) - 1)) \X (0..(Len(string_table) - 1))

\* the first pair of a set, symbol index first
FirstPair(P) ==
    CHOOSE p \in P : \A q \in P : p[1] < q[1] \/ (p[1] = q[1] /\ p[2] <= q[2])

\* the load address is that of the first pair that verifies, and None is
\* returned when no pair does
ResolvedBy(checked) ==
    LET P == {p \in Pairs : Verifies(p[1], p[2], checked)}
    IN  IF P = {} THEN ret = None
        ELSE /\ ret = Some(WSub(At(symbol_table, FirstPair(P)[1]).symbol_name_addr,
                                WInt(At(string_table, FirstPair(P)[2]).address)))
             /\ load_address = ret

\* C10, as the code has it: the address returned is that of the first
\* pair (s, t), symbol index first, whose runs s..s+C-1 and t..t+C-1 are
\* within the tables and whose lengths match at every k in 0..C-2; the
\* lengths at C-1 are not compared.  None is returned when no pair does,
\* and load_address is then as it was before the call.
C10_RunOfAllButLast ==
    Resolved =>
        /\ CheckedCount >= RunLength
        /\ ResolvedBy(CheckedCount - 1)
        /\ (ret = None /\ runs = 1) => load_address = None

\* an address is returned for a table of more than default_check_count
\* symbols
C10_AddressReturned ==
    /\ Resolved /\ ret # None
    /\ Len(symbol_table) > default_check_count
    /\ Len(string_table) > CheckedCount

\* C10: the address returned is that of the first pair whose lengths match
\* at every k in 0..C-1; None is returned, with load_address unset, when no
\* pair verifies.
C10_RunOfCount ==
    Resolved =>
        /\ ResolvedBy(CheckedCount)
        /\ ret = None => load_address = None

---------------------------------------------------------------------------
(* C11: the round trip of the load address *)

\* the first find_loading_address of a target has ended
LoadingDone == pc = "idle" /\ op = "find_loading_address" /\ runs = 1

\* the pair (s, t) is in both tables with its run of CheckedCount entries,
\* and every symbol of the run holds L + the address of its string
RunAtBase(L, s, t) ==
    /\ s + CheckedCount - 1 < Len(symbol_table)
    /\ t + CheckedCount - 1 < Len(string_table)
    /\ \A k \in 0..(CheckedCount - 1) :
           WSub(At(symbol_table, s + k).symbol_name_addr, L)
               = WInt(At(string_table, t + k).address)

RoundTripsTo(B) ==
    /\ fault = "none"
    /\ ret = Some(B)
    /\ \E p \in Pairs : RunAtBase(B, p[1], p[2])

\* C11: on an image built from a string table of N function names, padded
\* by at most 4 null bytes, and N symbols whose name addresses are B + the
\* offsets of the names, find_loading_address returns B, and the symbols
\* of the verified run hold B + the addresses of the records of the run.
C11_RoundTrip ==
    \A x \in RoundTripBuilt :
        (firmware = x.firmware /\ vx_version = x.vx_version /\ LoadingDone)
            => RoundTripsTo(x.base)

\* the string table lacks the last name, no run of N records is in it and
\* no address is returned
C11_LastNameMissing ==
    \E x \in RoundTripBuilt :
        /\ firmware = x.firmware /\ vx_version = x.vx_version /\ LoadingDone
        /\ fault = "none"
        /\ ret = None
        /\ Len(string_table) = Len(symbol_table) - 1

\* an address that is returned is B, and the run is as claimed
C11_ReturnedAddressIsBase ==
    \A x \in RoundTripBuilt :
        (/\ firmware = x.firmware /\ vx_version = x.vx_version /\ LoadingDone
         /\ ret # None)
            => RoundTripsTo(x.base)

C11_AddressReturned ==
    \E x \in RoundTripBuilt :
        /\ firmware = x.firmware /\ vx_version = x.vx_version /\ LoadingDone
        /\ ret # None

---------------------------------------------------------------------------
(* C12: the probe of the known addresses *)

\* quick_test has ended, and not in prepare
QuickTestDone == pc = "idle" /\ op = "quick_test" /\ fault # "struct.error"

\* nameAddress - candidate for the i-th record (from 0) of the sorted table
ProbeOffset(i, candidate) == WSub(At(symbol_table, i).symbol_name_addr, candidate)

\* the offset is not negative, is inside the image and a string starts at
\* it: the byte there is not null
StringStartsAt(offset) ==
    /\ offset[1] = 0
    /\ offset[2] < Len(firmware)
    /\ At(firmware, offset[2]) # 0

AcceptedByRule(candidate) ==
    /\ has_symbol = Some(TRUE)
    /\ \A i \in 0..(CheckedCount - 1) : StringStartsAt(ProbeOffset(i, candidate))

\* what quick_test returns when _check_load_address follows the rule: the
\* first of known_address that is accepted
FirstAccepted ==
    LET K == {k \in 1..Len(known_address) : AcceptedByRule(known_address[k])}
    IN  IF K = {} THEN None ELSE Some(known_address[Least(K)])

\* C12: _check_load_address(candidate) is True iff a symbol table was found
\* and, for each of the first min(symbolCount, 100) records, nameAddress -
\* candidate is a non-negative offset inside the image at which a string
\* starts; it is False, and nothing is raised, for every other candidate.
\* So quick_test raises nothing and returns the first known address that
\* the rule accepts.
C12_ProbeByRule == QuickTestDone => (fault = "none" /\ ret = FirstAccepted)

\* _check_load_address raised IndexError
C12_ProbeRaises == QuickTestDone /\ fault = "IndexError"

\* the rule holds for the images whose last byte is null, where no string
\* runs to the end of the image
C12_ProbeByRuleOnClosedImage ==
    (QuickTestDone /\ firmware[Len(firmware)] = 0)
        => (fault = "none" /\ ret = FirstAccepted)

C12_KnownAddressAccepted == QuickTestDone /\ firmware[Len(firmware)] = 0 /\ ret # None

---------------------------------------------------------------------------
(* C13: no anchor, no boundaries *)

\* the null-delimited key word is nowhere in the image
AnchorMissing ==
    IndexOf(firmware, <<0>> \o function_name_key_words[1] \o <<0>>) = None

\* the first find_loading_address of a target has ended, on an image with a
\* symbol table that prepare decoded
LoadingDoneWithTable ==
    LoadingDone /\ has_symbol = Some(TRUE) /\ fault # "struct.error"

\* C13: with a symbol table and no anchor in the image, and also when the
\* locator returns (None, None), find_loading_address returns None, leaves
\* load_address None and raises nothing.
C13_NotFoundIsNoFault ==
    (LoadingDoneWithTable /\ (AnchorMissing \/ locate = <<None, None>>))
        => (fault = "none" /\ ret = None /\ load_address = None)

\* self._firmware.index raised ValueError: the anchor is missing
C13_AnchorMissingRaises ==
    LoadingDoneWithTable /\ AnchorMissing /\ fault = "ValueError"

\* get_string_table(None, None) raised TypeError
C13_NoBoundariesRaises ==
    LoadingDoneWithTable /\ locate = <<None, None>> /\ fault = "TypeError"

\* in both cases the fields of the target are left as prepare set them
C13_NothingResolved ==
    (LoadingDoneWithTable /\ (AnchorMissing \/ locate = <<None, None>>))
        => (ret = None /\ load_address = None /\ string_table = <<>>)

---------------------------------------------------------------------------
(* C14: an image without a symbol table *)

\* no offset of the image starts a run of 10 windows that pass the matcher
NoRun ==
    \A o \in 0..(Len(firmware) - 1) :
        \E i \in 0..(RunLength - 1) :
            ~_check_symbol_format_simple(vx_version, RecordWindow(o + i * interval))

---------------------------------------------------------------------------
(* C15: the loops of the locator end *)

\* C15: an iteration of the backward loop at a printable byte decreases
\* start_offset or leaves the loop, and an iteration of the forward loop
\* at a printable byte increases end_offset or leaves the loop, so that
\* find_string_table_by_key_function_index returns for every image.
C15_EveryIterationAdvances ==
    [][/\ (pc = "back" /\ pc' = "back") => start_offset' < start_offset
       /\ (pc = "fwd" /\ pc' = "fwd") => end_offset' > end_offset]_vars

\* the forward loop has appended the string it appended in the iteration
\* before: end_offset did not move
C15_SameNameAppendedAgain ==
    /\ pc = "fwd"
    /\ Len(temp_str_tab_data) >= 2
    /\ temp_str_tab_data[Len(temp_str_tab_data)]
           = temp_str_tab_data[Len(temp_str_tab_data) - 1]

\* the backward loop does advance
C15_BackwardAdvances ==
    [][(pc = "back" /\ pc' = "back") => start_offset' < start_offset]_vars

\* the forward loop advances unless no string follows the name it appended
C15_ForwardAdvancesWhenStringFollows ==
    [][(/\ pc = "fwd" /\ pc' = "fwd"
        /\ ForwardNeighbour.kind # "none")
           => end_offset' > end_offset]_vars

---------------------------------------------------------------------------
(* C16: the endian and the cross-check of the scanner *)

\* the bytes [a, b) of the record are the same in the 10 records of the run
\* that starts at symbol_table_start
InvariantInRun(a, b) ==
    \A i \in 0..(RunLength - 2) :
        Slice(firmware, Val(symbol_table_start) + a + i * interval,
              Val(symbol_table_start) + b + i * interval)
            = Slice(firmware, Val(symbol_table_start) + a + (i + 1) * interval,
                    Val(symbol_table_start) + b + (i + 1) * interval)

\* a table of version 5 was accepted and its endian detected
EndianDetected ==
    /\ vx_version = 5
    /\ has_symbol = Some(TRUE)
    /\ Truthy(symbol_table_start)
    /\ endian # None

\* C16: for version 5 the endian agrees with the cross-check that accepted
\* the table: Big when the bytes [4:6) are invariant in the run and [6:8)
\* are not, Little when [6:8) are invariant and [4:6) are not.
C16_EndianAgreesWithScanner ==
    EndianDetected =>
        /\ (InvariantInRun(4, 6) /\ ~InvariantInRun(6, 8)) => endian = Some(1)
        /\ (InvariantInRun(6, 8) /\ ~InvariantInRun(4, 6)) => endian = Some(2)

\* a table accepted for its bytes [6:8) is reported Big
C16_LittleTableReportedBig ==
    /\ EndianDetected
    /\ InvariantInRun(6, 8) /\ ~InvariantInRun(4, 6)
    /\ endian = Some(1)

\* the two agree for the tables accepted for their bytes [4:6), and for
\* those accepted for their bytes [6:8) whose first two records differ in
\* the bytes [4:6)
C16_AgreesButForFirstPair ==
    EndianDetected =>
        /\ (InvariantInRun(4, 6) /\ ~InvariantInRun(6, 8)) => endian = Some(1)
        /\ (/\ InvariantInRun(6, 8) /\ ~InvariantInRun(4, 6)
            /\ RecordField(0, 4, 6) # RecordField(1, 4, 6)) => endian = Some(2)

=============================================================================
